---- MODULE Spec2Model ----
(***************************************************************************)
(* Model of the hyperenclave architecture layer:                           *)
(*   - the x86_64 and ARM execution-context switch                         *)
(*     (src/src/arch/x86_64/context.rs, src/src/arch/ARM/context.rs)       *)
(*   - the ARM stage-1 page-table entry codec (src/src/arch/ARM/s1pt.rs)   *)
(*     and its paging instructions (S1PTInstr)                             *)
(*   - the trampoline macros and the GuestRegisters block                  *)
(*   - CpuMask (src/src/cpumask.rs), the alignment helpers                 *)
(*     (src/src/memory/addr.rs) and clflush_cache_range                    *)
(*     (src/src/arch/x86_64/cpu.rs)                                        *)
(*                                                                         *)
(* The context switch is modelled as a machine that executes the           *)
(* statements of load_from / restore / return_to_linux one at a time, in   *)
(* source order, against a memory-backed register file.  Every hardware    *)
(* access is appended to `log`, so ordering properties can be read off.    *)
(***************************************************************************)
EXTENDS Integers, Sequences, FiniteSets

VARIABLES
    arch,       \* "x86_64" or "ARM": which build of arch/ is running
    fn,         \* the function the CPU is executing ("kernel" when Linux runs)
    ip,         \* index of the next statement of fn
    hw,         \* the hardware register file
    hw0,        \* hw at the moment the kernel was interrupted (pre-capture)
    mem,        \* memory words: the Linux stack and the GuestRegisters block
    snap,       \* the LinuxContext snapshot
    tabs,       \* descriptor-table memory: the kernel's GDT and the hypervisor's
    gdt_lock,   \* whether the spin lock around the hypervisor GDT is held
    log,        \* hardware accesses of the current function invocation
    alloc,      \* register the compiler chose for the asm operand {guest_regs}
    resumed,    \* the function whose final jump resumed the kernel, or "none"
    linux_sp,   \* the argument of load_from: where the kernel's registers were pushed
    pte,        \* a stage-1 PTEntry: the set of bit positions set in the u64
    pte_pre,    \* the entry before the last PTEntry operation
    pte_op,     \* the last PTEntry operation
    pte_out,    \* what the last flags() call returned
    desc,       \* a DescriptorAttr: the set of bit positions set in it
    desc_op,    \* the last DescriptorAttr operation
    desc_out,   \* its MemType argument or result, or "panic"
    ttbr,       \* TTBR0_EL2 as last written
    ttbr_eff,   \* the root the table walker uses (a write takes effect later)
    tlb,        \* the cached translations
    tlbi,       \* cached translations whose invalidation is issued, not complete
    mmu_fn,     \* the S1PTInstr function running, "idle" or "returned"
    mmu_pc,     \* index of its next instruction
    mmu_arg,    \* its argument
    mmu_log,    \* the instructions it has executed
    mask,       \* a CpuMask: word index -> set of bit positions set
    mask_pre,   \* the mask before the last CpuMask operation
    mask_op,    \* the last CpuMask operation
    mask_cpu,   \* its cpuid argument
    addr_in,    \* the argument of the last addr.rs function: a set of bit positions
    addr_op,    \* the last addr.rs function
    addr_out,   \* its result, or "panic"
    overflow_checks, \* whether the build traps integer overflow
    cl_fn,      \* the position inside clflush_cache_range
    cl_vaddr,   \* its arguments
    cl_length,
    cl_addr,    \* the loop variable
    cl_log      \* the fences and flushes it has issued

ctxVars == <<arch, fn, ip, hw, hw0, mem, snap, tabs, gdt_lock, log, alloc,
            resumed, linux_sp>>
pteVars == <<pte, pte_pre, pte_op, pte_out>>
attrVars == <<desc, desc_op, desc_out>>
mmuVars == <<ttbr, ttbr_eff, tlb, tlbi, mmu_fn, mmu_pc, mmu_arg, mmu_log>>
maskVars == <<mask, mask_pre, mask_op, mask_cpu>>
addrVars == <<addr_in, addr_op, addr_out, overflow_checks>>
cacheVars == <<cl_fn, cl_vaddr, cl_length, cl_addr, cl_log>>
\* what each component leaves alone
nonCtxVars == <<pteVars, attrVars, mmuVars, maskVars, addrVars, cacheVars>>
nonPteVars == <<ctxVars, attrVars, mmuVars, maskVars, addrVars, cacheVars>>
nonAttrVars == <<ctxVars, pteVars, mmuVars, maskVars, addrVars, cacheVars>>
nonMmuVars == <<ctxVars, pteVars, attrVars, maskVars, addrVars, cacheVars>>
nonMaskVars == <<ctxVars, pteVars, attrVars, mmuVars, addrVars, cacheVars>>
nonAddrVars == <<ctxVars, pteVars, attrVars, mmuVars, maskVars, cacheVars>>
nonCacheVars == <<ctxVars, pteVars, attrVars, mmuVars, maskVars, addrVars>>
vars == <<ctxVars, pteVars, attrVars, mmuVars, maskVars, addrVars, cacheVars>>

-----------------------------------------------------------------------------
(* Bounds of the model *)

\* kernel register values are drawn from seeds 0..MaxSeed
MaxSeed == 1
\* number of 8-byte slots of each modelled GDT
GdtLen == 8

-----------------------------------------------------------------------------
(* x86_64: constants of context.rs and of the tables it uses *)

SAVED_LINUX_REGS == 7
WordSize == 8
\* the value load_from writes to IA32_PAT
HV_PAT == 459014
\* size_of::<GuestRegisters>(): 16 u64 fields
GuestRegsSize == 128
\* CR3 bits 0..11 hold flags / the PCID, the frame address starts at bit 12
Cr3FrameUnit == 4096
\* Cr0Flags / Cr4Flags name the low bits; the bits above are reserved
CrFlagsUnit == 16

Selector(index) == index * WordSize
SelIndex(sel) == sel \div WordSize
KCODE_SELECTOR == Selector(1)
TSS_SELECTOR == Selector(2)
NULL_SELECTOR == Selector(0)

HV_GDT == [base |-> "hv_gdt", limit |-> GdtLen * WordSize - 1]
HV_IDT == [base |-> "hv_idt", limit |-> Cr3FrameUnit - 1]

\* Addresses of the two memory regions the context switch touches.
LinuxSp == 8 * WordSize
GuestBase == 32 * WordSize
MemTop == GuestBase + GuestRegsSize + WordSize
Addrs == {a \in 0..MemTop : a % WordSize = 0}

-----------------------------------------------------------------------------
(* x86_64: the states the kernel can be interrupted in *)

NullDesc == [type |-> "null", base |-> 0]

\* The kernel's GDT: its TSS descriptor (two slots) is busy, since the
\* kernel loaded TR from it.
LinuxGdt(t) ==
    [i \in 0..(GdtLen - 1) |->
        IF i = 0 THEN NullDesc
        ELSE IF i = t THEN [type |-> "tss_busy", base |-> 70 + t]
        ELSE IF i = t + 1 THEN [type |-> "tss_hi", base |-> 80 + t]
        ELSE [type |-> "seg", base |-> 0]]

\* The hypervisor's GDT: null, kernel code, TSS (two slots).
HvGdt ==
    [i \in 0..(GdtLen - 1) |->
        IF i = 1 THEN [type |-> "seg", base |-> 0]
        ELSE IF i = 2 THEN [type |-> "tss_avail", base |-> 30]
        ELSE IF i = 3 THEN [type |-> "tss_hi", base |-> 31]
        ELSE NullDesc]

KernelHw(k, low, t) ==
    [ cr0 |-> CrFlagsUnit * (1 + k) + 1 + 2 * k,
      cr3 |-> Cr3FrameUnit * (1 + k) + low,
      cr4 |-> CrFlagsUnit * k + 4 + k,
      efer |-> 100 + k, lstar |-> 110 + k, star |-> 120 + k,
      cstar |-> 130 + k, fmask |-> 140 + k, kernel_gsbase |-> 150 + k,
      pat |-> 160 + k, mtrr_def_type |-> 170 + k,
      fs_base |-> 180 + k, gs_base |-> 190 + k,
      gdtr |-> [base |-> "linux_gdt", limit |-> GdtLen * WordSize - 1],
      idtr |-> [base |-> "linux_idt", limit |-> GdtLen * WordSize + k],
      cs |-> Selector(2), ds |-> Selector(3) * (k % 2), es |-> Selector(5) * (k % 2),
      fs |-> NULL_SELECTOR, gs |-> Selector(1) * (k % 2), ss |-> Selector(3),
      tr |-> Selector(t),
      rsp |-> LinuxSp + SAVED_LINUX_REGS * WordSize, rip |-> 260 + k,
      rax |-> 0, rcx |-> 0, rdx |-> 0, rbx |-> 240 + k, rbp |-> 250 + k,
      rsi |-> 0, rdi |-> 0, r8 |-> 0, r9 |-> 0, r10 |-> 0, r11 |-> 0,
      r12 |-> 230 + k, r13 |-> 220 + k, r14 |-> 210 + k, r15 |-> 200 + k ]

\* Memory before the first entry: the GuestRegisters block holds the guest's
\* register values, everything else is zero.
InitMem ==
    [a \in Addrs |->
        IF a >= GuestBase /\ a < GuestBase + GuestRegsSize
        THEN 300 + (a - GuestBase) \div WordSize
        ELSE 0]

NoSegment == [selector |-> 0, base |-> 0]
NoSnapshot ==
    [ rsp |-> 0, rip |-> 0, r15 |-> 0, r14 |-> 0, r13 |-> 0, r12 |-> 0,
      rbx |-> 0, rbp |-> 0,
      cs |-> NoSegment, ds |-> NoSegment, es |-> NoSegment,
      fs |-> NoSegment, gs |-> NoSegment, tss |-> NoSegment,
      gdt |-> [base |-> "none", limit |-> 0],
      idt |-> [base |-> "none", limit |-> 0],
      cr0 |-> 0, cr3 |-> 0, cr4 |-> 0,
      efer |-> 0, lstar |-> 0, pat |-> 0, kernel_gsbase |-> 0, star |-> 0,
      cstar |-> 0, fmask |-> 0, mtrr_def_type |-> 0 ]

-----------------------------------------------------------------------------
(* x86_64: the statements of context.rs, in source order *)

I(op, a, b) == [op |-> op, a |-> a, b |-> b]

\* LinuxContext::load_from, first part: the reads that fill the snapshot.
\* A struct expression evaluates its fields in the order they are written.
LoadFromCapture ==
    << I("sgdt", "gdtr", "gdt"),                        \* 139
       I("rdsel", "fs", "fs"),                          \* 140
       I("rdsel", "gs", "gs"),                          \* 141
       I("rdbase", "fs_base", "fs"),                    \* 142
       I("rdbase", "gs_base", "gs"),                    \* 143
       I("stackend", SAVED_LINUX_REGS, "rsp"),          \* 146
       I("rdstack", 0, "r15"),                          \* 147
       I("rdstack", 1, "r14"),                          \* 148
       I("rdstack", 2, "r13"),                          \* 149
       I("rdstack", 3, "r12"),                          \* 150
       I("rdstack", 4, "rbx"),                          \* 151
       I("rdstack", 5, "rbp"),                          \* 152
       I("rdstack", 6, "rip"),                          \* 153
       I("rdsel", "cs", "cs"),                          \* 154
       I("rdsel", "ds", "ds"),                          \* 155
       I("rdsel", "es", "es"),                          \* 156
       I("rdsel", "tr", "tss"),                         \* 159
       I("sidt", "idtr", "idt"),                        \* 161
       I("rdcr", "cr0", "cr0"),                         \* 162
       I("rdcr", "cr3", "cr3"),                         \* 163
       I("rdcr", "cr4", "cr4"),                         \* 164
       I("rdmsr", "efer", "efer"),                      \* 165
       I("rdmsr", "lstar", "lstar"),                    \* 166
       I("rdmsr", "kernel_gsbase", "kernel_gsbase"),    \* 167
       I("rdmsr", "star", "star"),                      \* 168
       I("rdmsr", "cstar", "cstar"),                    \* 169
       I("rdmsr", "fmask", "fmask"),                    \* 170
       I("rdmsr", "pat", "pat"),                        \* 171
       I("rdmsr", "mtrr_def_type", "mtrr_def_type") >>  \* 172

\* "Setup new GDT, IDT, CS, TSS": the hypervisor's descriptor tables.
LoadFromInstallTables ==
    << I("lgdt", "gdtr", "HV_GDT") >>                   \* 176

LoadFromInstallSegments ==
    << I("ldsel", "cs", "KCODE_SELECTOR"),              \* 178
       I("ldsel", "ds", "NULL_SELECTOR"),               \* 179
       I("ldsel", "es", "NULL_SELECTOR"),               \* 180
       I("ldsel", "ss", "NULL_SELECTOR") >>             \* 181

LoadFromInstallRest ==
    << I("lidt", "idtr", "HV_IDT"),                     \* 183
       I("load_tss", "tr", "TSS_SELECTOR"),             \* 184
       I("wrmsr", "pat", "HV_PAT") >>                   \* 187

\* Mutant: the hypervisor's tables and PAT are installed before the reads.
LoadFromProg_InstallFirst ==
    LoadFromInstallTables \o LoadFromInstallSegments \o LoadFromInstallRest
        \o LoadFromCapture

\* LinuxContext::load_from
LoadFromProg ==
    LoadFromCapture \o LoadFromInstallTables \o LoadFromInstallSegments
        \o LoadFromInstallRest

\* LinuxContext::restore, statement groups in source order.
RestoreMsrs ==
    << I("wrmsr", "pat", "pat"),                        \* 194
       I("wrmsr", "efer", "efer"),                      \* 195
       I("wrmsr", "kernel_gsbase", "kernel_gsbase"),    \* 196
       I("wrmsr", "star", "star"),                      \* 197
       I("wrmsr", "cstar", "cstar"),                    \* 198
       I("wrmsr", "fmask", "fmask") >>                  \* 199

\* Mutant: CR3 is written before CR4.
RestoreControlRegs_Cr3First ==
    << I("wrcr", "cr0", "cr0"),
       I("wrcr", "cr3", "cr3"),
       I("wrcr", "cr4", "cr4") >>

RestoreControlRegs ==
    << I("wrcr", "cr0", "cr0"),                         \* 201
       I("wrcr", "cr4", "cr4"),                         \* 202
       I("wrcr", "cr3", "cr3") >>                       \* 204-207

RestoreTss ==
    << I("lock", "GDT", "GDT"),                         \* 212
       I("copydesc", 0, "tss"),                         \* 216
       I("copydesc", 1, "tss"),                         \* 217
       I("load_tss", "tr", "tss"),                      \* 218
       I("unlock", "GDT", "GDT") >>                     \* 219

RestoreTables ==
    << I("lgdt", "gdtr", "gdt"),                        \* 221
       I("lidt", "idtr", "idt") >>                      \* 222

\* Mutant: DS is reloaded before CS.
RestoreSegments_DsFirst ==
    << I("ldsel", "ds", "ds"),
       I("ldsel", "cs", "cs"),
       I("ldsel", "es", "es"),
       I("ldsel", "fs", "fs"),
       I("ldsel", "gs", "gs") >>

RestoreSegments ==
    << I("ldsel", "cs", "cs"),                          \* 224
       I("ldsel", "ds", "ds"),                          \* 225
       I("ldsel", "es", "es"),                          \* 226
       I("ldsel", "fs", "fs"),                          \* 227
       I("ldsel", "gs", "gs") >>                        \* 228

RestoreBases ==
    << I("wrbase", "fs_base", "fs"),                    \* 230
       I("wrbase", "gs_base", "gs") >>                  \* 231

\* Mutant: the FS/GS base MSRs are not written back after the selectors.
RestoreProg_NoBases ==
    RestoreMsrs \o RestoreControlRegs \o RestoreTss \o RestoreTables
        \o RestoreSegments

\* Mutant: the kernel's GDT is installed before its TSS descriptor is copied.
RestoreProg_GdtFirst ==
    RestoreMsrs \o RestoreControlRegs \o RestoreTables \o RestoreTss
        \o RestoreSegments \o RestoreBases

\* LinuxContext::restore
RestoreProg ==
    RestoreMsrs \o RestoreControlRegs \o RestoreTss \o RestoreTables
        \o RestoreSegments \o RestoreBases

\* Mutant: the slot of _unused_rsp is not skipped.
X86RestoreRegsFromStack_NoSkip ==
    << I("pop", "rax", 0), I("pop", "rcx", 0), I("pop", "rdx", 0),
       I("pop", "rbx", 0),
       I("pop", "rbp", 0), I("pop", "rsi", 0), I("pop", "rdi", 0),
       I("pop", "r8", 0), I("pop", "r9", 0), I("pop", "r10", 0),
       I("pop", "r11", 0), I("pop", "r12", 0), I("pop", "r13", 0),
       I("pop", "r14", 0), I("pop", "r15", 0) >>

\* restore_regs_from_stack!() of the x86_64 trampoline.
X86RestoreRegsFromStack ==
    << I("pop", "rax", 0), I("pop", "rcx", 0), I("pop", "rdx", 0),   \* 117-119
       I("pop", "rbx", 0), I("addrsp", WordSize, 0),                  \* 120-121
       I("pop", "rbp", 0), I("pop", "rsi", 0), I("pop", "rdi", 0),   \* 122-124
       I("pop", "r8", 0), I("pop", "r9", 0), I("pop", "r10", 0),     \* 125-127
       I("pop", "r11", 0), I("pop", "r12", 0), I("pop", "r13", 0),   \* 128-130
       I("pop", "r14", 0), I("pop", "r15", 0) >>                     \* 131-132

\* save_regs_to_stack!() of the x86_64 trampoline.
X86SaveRegsToStack ==
    << I("pushreg", "r15", 0), I("pushreg", "r14", 0),                \* 95-96
       I("pushreg", "r13", 0), I("pushreg", "r12", 0),                \* 97-98
       I("pushreg", "r11", 0), I("pushreg", "r10", 0),                \* 99-100
       I("pushreg", "r9", 0), I("pushreg", "r8", 0),                  \* 101-102
       I("pushreg", "rdi", 0), I("pushreg", "rsi", 0),                \* 103-104
       I("pushreg", "rbp", 0), I("subrsp", WordSize, 0),              \* 105-106
       I("pushreg", "rbx", 0), I("pushreg", "rdx", 0),                \* 107-108
       I("pushreg", "rcx", 0), I("pushreg", "rax", 0) >>              \* 109-110

\* GuestRegisters::return_to_linux.
ReturnToLinuxProg ==
    << I("movrsp", "linux_rsp", 0),                     \* 240
       I("push", "linux_rip", 0),                       \* 241
       I("movreg", "rcx", "rsp"),                       \* 242
       I("movrsp", "guest_regs", 0),                    \* 243
       I("store", GuestRegsSize, "rcx") >>              \* 244
    \o X86RestoreRegsFromStack                          \* 245
    \o << I("poprsp", 0, 0),                            \* 246
          I("ret", 0, 0) >>                             \* 247

-----------------------------------------------------------------------------
(* ARM: the statements of context.rs, in source order *)

\* restore_regs_from_stack!() of the ARM trampoline:
\* ldr x0, [sp], #8 and fifteen ldp xa, xb, [sp], #16
ArmRestoreRegsFromStack ==
    << I("ldr", 0, 0) >>                                              \* 141
    \o [i \in 1..15 |-> I("ldp", 2 * i - 1, 2 * i)]                   \* 142-156

\* save_regs_to_stack!() of the ARM trampoline:
\* fifteen stp xa, xb, [sp, #-16]! and str x0, [sp, #-8]!
ArmSaveRegsToStack ==
    [i \in 1..15 |-> I("stp", 31 - 2 * i, 32 - 2 * i)]               \* 118-132
    \o << I("str", 0, 0) >>                                           \* 133

\* LinuxContext::restore (ARM)
ArmRestoreProg ==
    << I("movsp", "sp", 0),                             \* 211
       I("movop", 0, "pc"),                             \* 212
       I("br", 0, 0) >>                                 \* 213

\* GuestRegisters::return_to_linux (ARM)
ArmReturnToLinuxProg ==
    << I("movsp", "sp", 0),                             \* 227
       I("movop", 0, "pc") >>                           \* 228
    \o ArmRestoreRegsFromStack                          \* 229
    \o << I("br", 0, 0) >>                              \* 230

\* SAVED_LINUX_REGS of the ARM context.rs
ARM_SAVED_LINUX_REGS == 31

\* the fields x1 .. x28 of the ARM LinuxContext, which load_from assigns from
\* regs[3] .. regs[30]
ArmXFields ==
    <<
      "x1", "x2", "x3", "x4", "x5", "x6", "x7",
      "x8", "x9", "x10", "x11", "x12", "x13", "x14",
      "x15", "x16", "x17", "x18", "x19", "x20", "x21",
      "x22", "x23", "x24", "x25", "x26", "x27", "x28" >>

\* LinuxContext::load_from (ARM): the struct expression, in source order
ArmLoadFromProg ==
    << I("rdstack", 0, "sp"),                           \* 166
       I("rdstack", 1, "x29"),                          \* 167
       I("rdstack", 2, "x30") >>                        \* 168
    \o [i \in 1..Len(ArmXFields) |-> I("rdstack", i + 2, ArmXFields[i])]  \* 169-196
    \o << I("rdstack", 31, "sp"),                       \* 197
          I("rdstack", 32, "pc") >>                     \* 198

\* LinuxContext::load_from (x86_64): the statements that read the slice regs
X86LoadFromRegs ==
    SelectSeq(LoadFromCapture, LAMBDA st : st.op \in {"stackend", "rdstack"})

Prog(f) ==
    CASE arch = "x86_64" /\ f = "load_from" -> LoadFromProg
      [] arch = "x86_64" /\ f = "restore" -> RestoreProg
      [] arch = "x86_64" /\ f = "return_to_linux" -> ReturnToLinuxProg
      [] arch = "ARM" /\ f = "restore" -> ArmRestoreProg
      [] arch = "ARM" /\ f = "return_to_linux" -> ArmReturnToLinuxProg
      [] arch = "x86_64" /\ f = "save_restore" ->
            X86SaveRegsToStack \o X86RestoreRegsFromStack
      [] arch = "x86_64" /\ f = "restore_block" -> X86RestoreRegsFromStack
      [] arch = "ARM" /\ f = "save_restore" ->
            ArmSaveRegsToStack \o ArmRestoreRegsFromStack
      [] arch = "ARM" /\ f = "restore_block" -> ArmRestoreRegsFromStack
      [] arch = "x86_64" /\ f = "load_regs" -> X86LoadFromRegs
      [] arch = "ARM" /\ f = "load_regs" -> ArmLoadFromProg
      [] OTHER -> << >>

-----------------------------------------------------------------------------
(* x86_64: what each statement does *)

Running == arch = "x86_64" /\ ip <= Len(Prog(fn))
Cur == Prog(fn)[ip]

Ev(kind, reg) ==
    [kind |-> kind, reg |-> reg, locked |-> gdt_lock, gdtr |-> hw.gdtr.base]

\* Cr0::read / Cr4::read: from_bits_truncate keeps the named flag bits.
\* Cr3::read().0.start_address(): the frame address, without the low bits.
CrRead(reg, v) ==
    IF reg = "cr3" THEN v - (v % Cr3FrameUnit) ELSE v % CrFlagsUnit

\* Cr0::write / Cr4::write keep the reserved bits of the current value.
\* Cr3::write(PhysFrame::containing_address(cr3), Cr3Flags::empty()).
CrWrite(reg, old, v) ==
    IF reg = "cr3" THEN v - (v % Cr3FrameUnit)
    ELSE (old - (old % CrFlagsUnit)) + (v % CrFlagsUnit)

\* The selector a segment load takes: a constant of tables.rs or a field of
\* the snapshot.
SelectorOf(src) ==
    CASE src = "KCODE_SELECTOR" -> KCODE_SELECTOR
      [] src = "TSS_SELECTOR" -> TSS_SELECTOR
      [] src = "NULL_SELECTOR" -> NULL_SELECTOR
      [] OTHER -> snap[src].selector

\* The descriptor a selector names in the table GDTR points to.
DescOf(ptr, sel) == tabs[ptr.base][SelIndex(sel)]

Step == ip' = ip + 1 /\ fn' = fn
Logged(kind, reg) == log' = Append(log, Ev(kind, reg))

\* GDTStruct::sgdt()
Sgdt ==
    /\ Running /\ Cur.op = "sgdt"
    /\ snap' = [snap EXCEPT !.gdt = hw.gdtr]
    /\ Logged("r", "gdtr") /\ Step
    /\ UNCHANGED <<nonCtxVars, arch, hw, hw0, mem, tabs, gdt_lock, alloc, resumed, linux_sp>>

\* IDTStruct::sidt()
Sidt ==
    /\ Running /\ Cur.op = "sidt"
    /\ snap' = [snap EXCEPT !.idt = hw.idtr]
    /\ Logged("r", "idtr") /\ Step
    /\ UNCHANGED <<nonCtxVars, arch, hw, hw0, mem, tabs, gdt_lock, alloc, resumed, linux_sp>>

\* Segment::from_selector(segmentation::xx(), &gdt): the selector, and the
\* base of the descriptor it names in the table sgdt returned.
ReadSelector ==
    /\ Running /\ Cur.op = "rdsel"
    /\ snap' = [snap EXCEPT ![Cur.b] =
                    [selector |-> hw[Cur.a],
                     base |-> DescOf(snap.gdt, hw[Cur.a]).base]]
    /\ Logged("r", Cur.a) /\ Step
    /\ UNCHANGED <<nonCtxVars, arch, hw, hw0, mem, tabs, gdt_lock, alloc, resumed, linux_sp>>

\* fs.base = Msr::IA32_FS_BASE.read()
ReadBase ==
    /\ Running /\ Cur.op = "rdbase"
    /\ snap' = [snap EXCEPT ![Cur.b].base = hw[Cur.a]]
    /\ Logged("r", Cur.a) /\ Step
    /\ UNCHANGED <<nonCtxVars, arch, hw, hw0, mem, tabs, gdt_lock, alloc, resumed, linux_sp>>

\* rsp: regs.as_ptr_range().end
StackEnd ==
    /\ Running /\ Cur.op = "stackend"
    /\ snap' = [snap EXCEPT ![Cur.b] = linux_sp + Cur.a * WordSize]
    /\ Step
    /\ UNCHANGED <<nonCtxVars, arch, hw, hw0, mem, tabs, gdt_lock, log, alloc, resumed, linux_sp>>

\* r15: regs[0], ...
ReadStack ==
    /\ Running /\ Cur.op = "rdstack"
    /\ snap' = [snap EXCEPT ![Cur.b] = mem[linux_sp + Cur.a * WordSize]]
    /\ Step
    /\ UNCHANGED <<nonCtxVars, arch, hw, hw0, mem, tabs, gdt_lock, log, alloc, resumed, linux_sp>>

\* Cr0::read(), Cr3::read().0.start_address().as_u64(), Cr4::read()
ReadCr ==
    /\ Running /\ Cur.op = "rdcr"
    /\ snap' = [snap EXCEPT ![Cur.b] = CrRead(Cur.a, hw[Cur.a])]
    /\ Logged("r", Cur.a) /\ Step
    /\ UNCHANGED <<nonCtxVars, arch, hw, hw0, mem, tabs, gdt_lock, alloc, resumed, linux_sp>>

\* Msr::X.read()
ReadMsr ==
    /\ Running /\ Cur.op = "rdmsr"
    /\ snap' = [snap EXCEPT ![Cur.b] = hw[Cur.a]]
    /\ Logged("r", Cur.a) /\ Step
    /\ UNCHANGED <<nonCtxVars, arch, hw, hw0, mem, tabs, gdt_lock, alloc, resumed, linux_sp>>

\* GDT.lock().load() takes and drops the lock around lgdt;
\* GDTStruct::lgdt(&self.gdt) loads the captured pointer.
LoadGdt ==
    /\ Running /\ Cur.op = "lgdt"
    /\ Cur.b = "HV_GDT" => ~gdt_lock
    /\ hw' = [hw EXCEPT !.gdtr = IF Cur.b = "HV_GDT" THEN HV_GDT ELSE snap.gdt]
    /\ Logged("w", "gdtr") /\ Step
    /\ UNCHANGED <<nonCtxVars, arch, hw0, mem, snap, tabs, gdt_lock, alloc, resumed, linux_sp>>

\* IDT.lock().load(); IDTStruct::lidt(&self.idt)
LoadIdt ==
    /\ Running /\ Cur.op = "lidt"
    /\ hw' = [hw EXCEPT !.idtr = IF Cur.b = "HV_IDT" THEN HV_IDT ELSE snap.idt]
    /\ Logged("w", "idtr") /\ Step
    /\ UNCHANGED <<nonCtxVars, arch, hw0, mem, snap, tabs, gdt_lock, alloc, resumed, linux_sp>>

\* segmentation::load_xx(selector).  Loading FS or GS also replaces the
\* hidden base with the base of the descriptor the selector names.
LoadSegment ==
    /\ Running /\ Cur.op = "ldsel"
    /\ LET sel == SelectorOf(Cur.b)
           h1 == [hw EXCEPT ![Cur.a] = sel]
       IN hw' = IF Cur.a = "fs"
                  THEN [h1 EXCEPT !.fs_base = DescOf(hw.gdtr, sel).base]
                ELSE IF Cur.a = "gs"
                  THEN [h1 EXCEPT !.gs_base = DescOf(hw.gdtr, sel).base]
                ELSE h1
    /\ Logged("w", Cur.a) /\ Step
    /\ UNCHANGED <<nonCtxVars, arch, hw0, mem, snap, tabs, gdt_lock, alloc, resumed, linux_sp>>

\* Msr::X.write(value)
WriteMsr ==
    /\ Running /\ Cur.op = "wrmsr"
    /\ hw' = [hw EXCEPT ![Cur.a] = IF Cur.b = "HV_PAT" THEN HV_PAT ELSE snap[Cur.b]]
    /\ Logged("w", Cur.a) /\ Step
    /\ UNCHANGED <<nonCtxVars, arch, hw0, mem, snap, tabs, gdt_lock, alloc, resumed, linux_sp>>

\* Msr::IA32_FS_BASE.write(self.fs.base)
WriteBase ==
    /\ Running /\ Cur.op = "wrbase"
    /\ hw' = [hw EXCEPT ![Cur.a] = snap[Cur.b].base]
    /\ Logged("w", Cur.a) /\ Step
    /\ UNCHANGED <<nonCtxVars, arch, hw0, mem, snap, tabs, gdt_lock, alloc, resumed, linux_sp>>

\* Cr0::write(self.cr0), Cr4::write(self.cr4), Cr3::write(frame, empty)
WriteCr ==
    /\ Running /\ Cur.op = "wrcr"
    /\ hw' = [hw EXCEPT ![Cur.a] = CrWrite(Cur.a, hw[Cur.a], snap[Cur.b])]
    /\ Logged("w", Cur.a) /\ Step
    /\ UNCHANGED <<nonCtxVars, arch, hw0, mem, snap, tabs, gdt_lock, alloc, resumed, linux_sp>>

\* let mut hv_gdt_lock = GDT.lock()
LockGdt ==
    /\ Running /\ Cur.op = "lock"
    /\ ~gdt_lock
    /\ gdt_lock' = TRUE
    /\ Step
    /\ UNCHANGED <<nonCtxVars, arch, hw, hw0, mem, snap, tabs, log, alloc, resumed, linux_sp>>

\* the end of the block drops hv_gdt_lock
UnlockGdt ==
    /\ Running /\ Cur.op = "unlock"
    /\ gdt_lock' = FALSE
    /\ Step
    /\ UNCHANGED <<nonCtxVars, arch, hw, hw0, mem, snap, tabs, log, alloc, resumed, linux_sp>>

\* hv_gdt[tss_idx + a] = liunx_gdt[tss_idx + a]
CopyDesc ==
    /\ Running /\ Cur.op = "copydesc"
    /\ LET idx == SelIndex(snap[Cur.b].selector) + Cur.a
       IN tabs' = [tabs EXCEPT !["hv_gdt"][idx] = tabs[snap.gdt.base][idx]]
    /\ Logged("w", "hv_gdt") /\ Step
    /\ UNCHANGED <<nonCtxVars, arch, hw, hw0, mem, snap, gdt_lock, alloc, resumed, linux_sp>>

\* GDT.lock().load_tss(TSS_SELECTOR) / hv_gdt_lock.load_tss(self.tss.selector):
\* marks the descriptor in the hypervisor's table available (the busy flag of
\* the copy is cleared) and executes ltr.  ltr reads the descriptor from the
\* table GDTR points to, faults unless it is an available TSS, and marks it
\* busy in that table.
LoadTss ==
    /\ Running /\ Cur.op = "load_tss"
    /\ Cur.b = "TSS_SELECTOR" => ~gdt_lock
    /\ LET sel == SelectorOf(Cur.b)
           idx == SelIndex(sel)
           t1 == [tabs EXCEPT !["hv_gdt"][idx].type = "tss_avail"]
           ok == t1[hw.gdtr.base][idx].type = "tss_avail"
       IN /\ tabs' = IF ok THEN [t1 EXCEPT ![hw.gdtr.base][idx].type = "tss_busy"]
                     ELSE t1
          /\ hw' = IF ok THEN [hw EXCEPT !.tr = sel] ELSE hw
          /\ fn' = IF ok THEN fn ELSE "fault"
          /\ ip' = IF ok THEN ip + 1 ELSE ip
          /\ log' = Append(log,
                 [kind |-> "w", reg |-> "tr",
                  locked |-> (gdt_lock \/ Cur.b = "TSS_SELECTOR"),
                  gdtr |-> hw.gdtr.base])
    /\ UNCHANGED <<nonCtxVars, arch, hw0, mem, snap, gdt_lock, alloc, resumed, linux_sp>>

-----------------------------------------------------------------------------
(* x86_64: the instructions of the asm! block of return_to_linux *)

\* The value of an asm operand.  {linux_rsp} and {linux_rip} are read before
\* the template writes any register; {guest_regs} is read from the register
\* the compiler allocated to it.
Operand(name) ==
    CASE name = "linux_rsp" -> snap.rsp
      [] name = "linux_rip" -> snap.rip
      [] name = "guest_regs" -> hw[alloc]

\* mov rsp, {operand}
MovRsp ==
    /\ Running /\ Cur.op = "movrsp"
    /\ hw' = [hw EXCEPT !.rsp = Operand(Cur.a)]
    /\ Step
    /\ UNCHANGED <<nonCtxVars, arch, hw0, mem, snap, tabs, gdt_lock, log, alloc, resumed, linux_sp>>

\* push {operand}
Push ==
    /\ Running /\ Cur.op = "push"
    /\ hw' = [hw EXCEPT !.rsp = hw.rsp - WordSize]
    /\ mem' = [mem EXCEPT ![hw.rsp - WordSize] = Operand(Cur.a)]
    /\ Step
    /\ UNCHANGED <<nonCtxVars, arch, hw0, snap, tabs, gdt_lock, log, alloc, resumed, linux_sp>>

\* mov a, b
MovReg ==
    /\ Running /\ Cur.op = "movreg"
    /\ hw' = [hw EXCEPT ![Cur.a] = hw[Cur.b]]
    /\ Step
    /\ UNCHANGED <<nonCtxVars, arch, hw0, mem, snap, tabs, gdt_lock, log, alloc, resumed, linux_sp>>

\* mov [rsp + a], b
Store ==
    /\ Running /\ Cur.op = "store"
    /\ mem' = [mem EXCEPT ![hw.rsp + Cur.a] = hw[Cur.b]]
    /\ Step
    /\ UNCHANGED <<nonCtxVars, arch, hw, hw0, snap, tabs, gdt_lock, log, alloc, resumed, linux_sp>>

\* push a (a register)
PushReg ==
    /\ Running /\ Cur.op = "pushreg"
    /\ hw' = [hw EXCEPT !.rsp = hw.rsp - WordSize]
    /\ mem' = [mem EXCEPT ![hw.rsp - WordSize] = hw[Cur.a]]
    /\ Step
    /\ UNCHANGED <<nonCtxVars, arch, hw0, snap, tabs, gdt_lock, log, alloc, resumed, linux_sp>>

\* sub rsp, a
SubRsp ==
    /\ Running /\ Cur.op = "subrsp"
    /\ hw' = [hw EXCEPT !.rsp = hw.rsp - Cur.a]
    /\ Step
    /\ UNCHANGED <<nonCtxVars, arch, hw0, mem, snap, tabs, gdt_lock, log, alloc, resumed, linux_sp>>

\* pop a
Pop ==
    /\ Running /\ Cur.op = "pop"
    /\ hw' = [hw EXCEPT ![Cur.a] = mem[hw.rsp], !.rsp = hw.rsp + WordSize]
    /\ Step
    /\ UNCHANGED <<nonCtxVars, arch, hw0, mem, snap, tabs, gdt_lock, log, alloc, resumed, linux_sp>>

\* add rsp, a
AddRsp ==
    /\ Running /\ Cur.op = "addrsp"
    /\ hw' = [hw EXCEPT !.rsp = hw.rsp + Cur.a]
    /\ Step
    /\ UNCHANGED <<nonCtxVars, arch, hw0, mem, snap, tabs, gdt_lock, log, alloc, resumed, linux_sp>>

\* pop rsp: rsp takes the popped word
PopRsp ==
    /\ Running /\ Cur.op = "poprsp"
    /\ hw' = [hw EXCEPT !.rsp = mem[hw.rsp]]
    /\ Step
    /\ UNCHANGED <<nonCtxVars, arch, hw0, mem, snap, tabs, gdt_lock, log, alloc, resumed, linux_sp>>

\* ret: the kernel runs again at the popped address
Ret ==
    /\ Running /\ Cur.op = "ret"
    /\ hw' = [hw EXCEPT !.rip = mem[hw.rsp], !.rsp = hw.rsp + WordSize]
    /\ resumed' = fn
    /\ fn' = "kernel" /\ ip' = 1
    /\ UNCHANGED <<nonCtxVars, arch, hw0, mem, snap, tabs, gdt_lock, log, alloc, linux_sp>>

-----------------------------------------------------------------------------
(* x86_64: calls and returns *)

\* The entry stub pushes the kernel's callee-saved registers below the return
\* address and calls load_from with the resulting stack pointer: regs[0..6] are
\* r15, r14, r13, r12, rbx, rbp and the return address.
PushedRegs == <<"r15", "r14", "r13", "r12", "rbx", "rbp", "rip">>

EnterHypervisor ==
    /\ arch = "x86_64" /\ fn = "kernel"
    /\ LET sp == hw.rsp - SAVED_LINUX_REGS * WordSize
       IN /\ linux_sp' = sp
          /\ mem' = [a \in Addrs |->
                        IF a >= sp /\ a < hw.rsp
                        THEN hw[PushedRegs[(a - sp) \div WordSize + 1]]
                        ELSE mem[a]]
          /\ hw' = [hw EXCEPT !.rsp = sp]
    /\ hw0' = hw
    /\ fn' = "load_from" /\ ip' = 1 /\ log' = << >> /\ resumed' = "none"
    /\ UNCHANGED <<nonCtxVars, arch, snap, tabs, gdt_lock, alloc>>

\* load_from returns the snapshot
LoadFromReturn ==
    /\ arch = "x86_64" /\ fn = "load_from" /\ ip = Len(LoadFromProg) + 1
    /\ fn' = "hv" /\ ip' = 1
    /\ UNCHANGED <<nonCtxVars, arch, hw, hw0, mem, snap, tabs, gdt_lock, log, alloc, resumed, linux_sp>>

\* linux.restore()
CallRestore ==
    /\ arch = "x86_64" /\ fn = "hv"
    /\ fn' = "restore" /\ ip' = 1 /\ log' = << >>
    /\ UNCHANGED <<nonCtxVars, arch, hw, hw0, mem, snap, tabs, gdt_lock, alloc, resumed, linux_sp>>

RestoreReturn ==
    /\ arch = "x86_64" /\ fn = "restore" /\ ip = Len(RestoreProg) + 1
    /\ fn' = "restored" /\ ip' = 1
    /\ UNCHANGED <<nonCtxVars, arch, hw, hw0, mem, snap, tabs, gdt_lock, log, alloc, resumed, linux_sp>>

\* Registers of the class `reg` the compiler may give {guest_regs}; rcx is
\* one of them, and the template overwrites rcx before it reads {guest_regs}.
OperandRegs == {"rcx", "rdi"}

\* guest_regs.return_to_linux(&linux): the operands are placed in registers
CallReturnToLinux ==
    /\ arch = "x86_64" /\ fn = "restored"
    /\ \E r \in OperandRegs :
          /\ alloc' = r
          /\ hw' = [hw EXCEPT ![r] = GuestBase]
    /\ fn' = "return_to_linux" /\ ip' = 1 /\ log' = << >>
    /\ UNCHANGED <<nonCtxVars, arch, hw0, mem, snap, tabs, gdt_lock, resumed, linux_sp>>

-----------------------------------------------------------------------------
(* ARM: what each instruction does *)

ArmRunning == arch = "ARM" /\ ip <= Len(Prog(fn))

\* mov sp, {sp} / mov sp, {linux_sp}
ArmMovSp ==
    /\ ArmRunning /\ Cur.op = "movsp"
    /\ hw' = [hw EXCEPT !.sp = snap[Cur.a]]
    /\ Step
    /\ UNCHANGED <<nonCtxVars, arch, hw0, mem, snap, tabs, gdt_lock, log, alloc, resumed, linux_sp>>

\* mov x0, {pc} / ldr x0, {linux_pc}: x0 takes the operand
ArmMovOperand ==
    /\ ArmRunning /\ Cur.op = "movop"
    /\ hw' = [hw EXCEPT !.x[Cur.a] = snap[Cur.b]]
    /\ Step
    /\ UNCHANGED <<nonCtxVars, arch, hw0, mem, snap, tabs, gdt_lock, log, alloc, resumed, linux_sp>>

\* ldr xa, [sp], #8
ArmLdr ==
    /\ ArmRunning /\ Cur.op = "ldr"
    /\ hw' = [hw EXCEPT !.x[Cur.a] = mem[hw.sp], !.sp = hw.sp + WordSize]
    /\ Step
    /\ UNCHANGED <<nonCtxVars, arch, hw0, mem, snap, tabs, gdt_lock, log, alloc, resumed, linux_sp>>

\* ldp xa, xb, [sp], #16
ArmLdp ==
    /\ ArmRunning /\ Cur.op = "ldp"
    /\ hw' = [hw EXCEPT !.x[Cur.a] = mem[hw.sp],
                        !.x[Cur.b] = mem[hw.sp + WordSize],
                        !.sp = hw.sp + 2 * WordSize]
    /\ Step
    /\ UNCHANGED <<nonCtxVars, arch, hw0, mem, snap, tabs, gdt_lock, log, alloc, resumed, linux_sp>>

\* stp xa, xb, [sp, #-16]!
ArmStp ==
    /\ ArmRunning /\ Cur.op = "stp"
    /\ hw' = [hw EXCEPT !.sp = hw.sp - 2 * WordSize]
    /\ mem' = [mem EXCEPT ![hw.sp - 2 * WordSize] = hw.x[Cur.a],
                          ![hw.sp - WordSize] = hw.x[Cur.b]]
    /\ Step
    /\ UNCHANGED <<nonCtxVars, arch, hw0, snap, tabs, gdt_lock, log, alloc, resumed, linux_sp>>

\* str xa, [sp, #-8]!
ArmStr ==
    /\ ArmRunning /\ Cur.op = "str"
    /\ hw' = [hw EXCEPT !.sp = hw.sp - WordSize]
    /\ mem' = [mem EXCEPT ![hw.sp - WordSize] = hw.x[Cur.a]]
    /\ Step
    /\ UNCHANGED <<nonCtxVars, arch, hw0, snap, tabs, gdt_lock, log, alloc, resumed, linux_sp>>

\* br x0: the kernel runs again at the address in x0
ArmBr ==
    /\ ArmRunning /\ Cur.op = "br"
    /\ hw' = [hw EXCEPT !.pc = hw.x[Cur.a]]
    /\ resumed' = fn
    /\ fn' = "kernel" /\ ip' = 1
    /\ UNCHANGED <<nonCtxVars, arch, hw0, mem, snap, tabs, gdt_lock, log, alloc, linux_sp>>

\* linux.restore() on ARM
ArmCallRestore ==
    /\ arch = "ARM" /\ fn = "hv"
    /\ fn' = "restore" /\ ip' = 1 /\ log' = << >>
    /\ UNCHANGED <<nonCtxVars, arch, hw, hw0, mem, snap, tabs, gdt_lock, alloc, resumed, linux_sp>>

\* guest_regs.return_to_linux(&linux) on ARM
ArmCallReturnToLinux ==
    /\ arch = "ARM" /\ fn = "hv"
    /\ fn' = "return_to_linux" /\ ip' = 1 /\ log' = << >>
    /\ UNCHANGED <<nonCtxVars, arch, hw, hw0, mem, snap, tabs, gdt_lock, alloc, resumed, linux_sp>>

-----------------------------------------------------------------------------
(* The context switch as a state machine *)

\* The low 12 bits of CR3 the kernel may run with: none, PCD|PWT, a PCID.
Cr3LowBits == {0, 3 * WordSize, 1}

\* GDT slots the kernel may keep its TSS descriptor in.
LinuxTssSlots == {4, 6}

PteIdle == pte = {} /\ pte_pre = {} /\ pte_op = "none" /\ pte_out = {}
AttrIdle == desc = {} /\ desc_op = "none" /\ desc_out = "none"
MmuIdle ==
    /\ ttbr = 0 /\ ttbr_eff = 0 /\ tlb = {} /\ tlbi = {}
    /\ mmu_fn = "none" /\ mmu_pc = 0 /\ mmu_arg = 0 /\ mmu_log = << >>
MaskIdle == mask = << >> /\ mask_pre = << >> /\ mask_op = "none" /\ mask_cpu = 0
AddrIdle ==
    /\ addr_in = {} /\ addr_op = "none" /\ addr_out = {}
    /\ overflow_checks = FALSE
CacheIdle ==
    /\ cl_fn = "none" /\ cl_vaddr = 0 /\ cl_length = 0 /\ cl_addr = 0
    /\ cl_log = << >>

X86Init ==
    /\ arch = "x86_64"
    /\ fn = "kernel" /\ ip = 1
    /\ \E k \in 0..MaxSeed, low \in Cr3LowBits, t \in LinuxTssSlots :
          /\ hw = KernelHw(k, low, t)
          /\ tabs = [linux_gdt |-> LinuxGdt(t), hv_gdt |-> HvGdt]
    /\ hw0 = hw
    /\ mem = InitMem
    /\ snap = NoSnapshot
    /\ gdt_lock = FALSE
    /\ log = << >>
    /\ alloc = "rdi"
    /\ resumed = "none"
    /\ linux_sp = 0

\* On ARM the model starts in the hypervisor with a LinuxContext to resume.
ArmInit ==
    /\ arch = "ARM"
    /\ fn = "hv" /\ ip = 1
    /\ \E k \in 0..MaxSeed :
          /\ snap = [sp |-> LinuxSp, pc |-> 500 + k]
          /\ mem = [a \in Addrs |-> 600 + a \div WordSize + k]
    /\ hw = [sp |-> 0, pc |-> 0, x |-> [i \in 0..30 |-> 0]]
    /\ hw0 = hw
    /\ tabs = [linux_gdt |-> LinuxGdt(4), hv_gdt |-> HvGdt]
    /\ gdt_lock = FALSE
    /\ log = << >>
    /\ alloc = "none"
    /\ resumed = "none"
    /\ linux_sp = 0

Init ==
    /\ X86Init \/ ArmInit
    /\ PteIdle /\ AttrIdle /\ MmuIdle /\ MaskIdle /\ AddrIdle /\ CacheIdle

Next ==
    \/ EnterHypervisor \/ LoadFromReturn \/ CallRestore \/ RestoreReturn
    \/ CallReturnToLinux
    \/ Sgdt \/ Sidt \/ ReadSelector \/ ReadBase \/ StackEnd \/ ReadStack
    \/ ReadCr \/ ReadMsr \/ LoadGdt \/ LoadIdt \/ LoadSegment \/ LoadTss
    \/ WriteMsr \/ WriteBase \/ WriteCr \/ LockGdt \/ UnlockGdt \/ CopyDesc
    \/ MovRsp \/ Push \/ MovReg \/ Store \/ Pop \/ AddRsp \/ PopRsp \/ Ret
    \/ ArmCallRestore \/ ArmCallReturnToLinux
    \/ ArmMovSp \/ ArmMovOperand \/ ArmLdr \/ ArmLdp \/ ArmBr

Spec == Init /\ [][Next]_vars

-----------------------------------------------------------------------------
(* Properties of the x86_64 context switch *)

\* What load_from captures of the hardware state, apart from CR3.
CapturedRegs ==
    {"cr0", "cr4", "efer", "lstar", "star", "cstar", "fmask", "kernel_gsbase",
     "pat", "mtrr_def_type", "fs_base", "gs_base", "gdtr", "idtr",
     "cs", "ds", "es", "fs", "gs", "tr"}

Writes(reg) == {i \in DOMAIN log : log[i].kind = "w" /\ log[i].reg = reg}
Reads(reg) == {i \in DOMAIN log : log[i].kind = "r" /\ log[i].reg = reg}
Before(S, T) == \A j \in T : \E i \in S : i < j

\* C1 as stated: after load_from followed at once by restore, every captured
\* register, CR3 with its low flag/PCID bits included, has its pre-capture value.
C1_RoundTripBitForBit ==
    (arch = "x86_64" /\ fn = "restored") =>
        \A r \in CapturedRegs \cup {"cr3"} : hw[r] = hw0[r]

\* C1 amended: after load_from followed at once by restore, every captured
\* register other than CR3 has its pre-capture value, and CR3 holds the
\* pre-capture frame address with its low 12 bits (flags / PCID) cleared.
C1_RoundTripExceptCr3Low ==
    (arch = "x86_64" /\ fn = "restored") =>
        /\ \A r \in CapturedRegs : hw[r] = hw0[r]
        /\ hw.cr3 = hw0.cr3 - (hw0.cr3 % Cr3FrameUnit)

\* A restore has completed for a kernel that ran with low CR3 bits set, after
\* load_from had replaced the kernel's GDT, PAT and segments.
C1_Witness ==
    /\ arch = "x86_64" /\ fn = "restored"
    /\ hw0.cr3 % Cr3FrameUnit # 0
    /\ hw.cr3 # hw0.cr3
    /\ hw.pat = hw0.pat /\ hw0.pat # HV_PAT
    /\ hw.gdtr = hw0.gdtr /\ hw0.gdtr # HV_GDT

\* C2: in restore no write of CR0 or CR4 follows the write of CR3, and a
\* completed restore has written CR0, CR4 and then CR3.
C2_Cr3WrittenLast ==
    (arch = "x86_64" /\ fn \in {"restore", "restored"}) =>
        /\ \A i \in Writes("cr3") : \A j \in Writes("cr0") \cup Writes("cr4") : j < i
        /\ fn = "restored" =>
              Writes("cr0") # {} /\ Writes("cr4") # {} /\ Writes("cr3") # {}

\* A restore that has written all three control registers.
C2_Witness ==
    /\ arch = "x86_64" /\ fn = "restored"
    /\ Writes("cr0") # {} /\ Writes("cr4") # {} /\ Writes("cr3") # {}

\* The pieces of hardware state load_from both stores in the snapshot and
\* overwrites, with the snapshot field each is stored in.
Overwritten == {"gdtr", "idtr", "tr", "cs", "ds", "es", "pat"}

\* C3: in load_from every piece of state that is stored in the snapshot is read
\* before its first write, so the finished snapshot holds the kernel's values.
C3_CaptureBeforeInstall ==
    (arch = "x86_64" /\ fn \in {"load_from", "hv"}) =>
        /\ \A r \in CapturedRegs \cup {"cr3"} : Before(Reads(r), Writes(r))
        /\ fn = "hv" =>
              /\ snap.gdt = hw0.gdtr /\ snap.idt = hw0.idtr
              /\ snap.tss.selector = hw0.tr
              /\ snap.cs.selector = hw0.cs /\ snap.ds.selector = hw0.ds
              /\ snap.es.selector = hw0.es
              /\ snap.pat = hw0.pat
              /\ \A r \in Overwritten : Writes(r) # {}

\* load_from has returned: the hypervisor's tables and PAT are installed and the
\* snapshot holds the kernel's.
C3_Witness ==
    /\ arch = "x86_64" /\ fn = "hv"
    /\ hw.gdtr = HV_GDT /\ hw.pat = HV_PAT /\ hw.tr = TSS_SELECTOR
    /\ snap.gdt = hw0.gdtr /\ snap.gdt # HV_GDT
    /\ snap.pat = hw0.pat /\ snap.pat # HV_PAT

\* C4 as stated: whenever a resume path has made its final jump, the kernel
\* runs at the captured instruction pointer with the captured stack pointer.
C4_ResumeAtCaptured ==
    resumed # "none" =>
        /\ fn = "kernel"
        /\ arch = "x86_64" => (hw.rip = snap.rip /\ hw.rsp = snap.rsp)
        /\ arch = "ARM" => (hw.pc = snap.pc /\ hw.sp = snap.sp)

\* C5: in load_from and in restore the GDT is loaded before CS is reloaded and
\* CS is reloaded before DS, ES, FS, GS or SS; a completed load_from has
\* reloaded CS, DS, ES, SS and a completed restore CS, DS, ES, FS, GS.
DataSegments == {"ds", "es", "fs", "gs", "ss"}

C5_SegmentReloadOrder ==
    arch = "x86_64" =>
        /\ Before(Writes("gdtr"), Writes("cs"))
        /\ \A r \in DataSegments : Before(Writes("cs"), Writes(r))
        /\ fn = "hv" => \A r \in {"cs", "ds", "es", "ss"} : Writes(r) # {}
        /\ fn = "restored" =>
              \A r \in {"cs", "ds", "es", "fs", "gs"} : Writes(r) # {}

\* A restore that has reloaded GS, the last of the segment registers.
C5_Witness ==
    /\ arch = "x86_64" /\ fn = "restored"
    /\ Writes("gdtr") # {} /\ Writes("cs") # {} /\ Writes("gs") # {}

\* C6: in restore both slots of the kernel's TSS descriptor are copied into the
\* hypervisor's GDT and TR is loaded from the copy, all with the GDT lock held
\* and before lgdt installs the kernel's GDT; the kernel's GDT is never written.
\* An ltr that faults is a TR load too: it is held to the same conditions.
C6_TssCopiedUnderLock ==
    arch = "x86_64" =>
        /\ tabs["linux_gdt"] = LinuxGdt(SelIndex(hw0.tr))
        /\ fn \in {"restore", "restored", "fault"} =>
              /\ \A j \in Writes("tr") :
                    /\ log[j].locked /\ log[j].gdtr = "hv_gdt"
                    /\ Cardinality({i \in Writes("hv_gdt") : i < j /\ log[i].locked}) = 2
                    /\ \A i \in Writes("gdtr") : j < i
              /\ fn = "restored" =>
                    LET t == SelIndex(snap.tss.selector)
                    IN /\ Writes("tr") # {} /\ hw.tr = snap.tss.selector
                       /\ tabs["hv_gdt"][t] = tabs["linux_gdt"][t]
                       /\ tabs["hv_gdt"][t + 1] = tabs["linux_gdt"][t + 1]
                       /\ ~gdt_lock

\* A restore that has loaded TR from the copied descriptor and then installed
\* the kernel's GDT.
C6_Witness ==
    /\ arch = "x86_64" /\ fn = "restored"
    /\ Writes("tr") # {} /\ Writes("gdtr") # {}
    /\ hw.tr = hw0.tr /\ hw.gdtr.base = "linux_gdt"
    /\ tabs["hv_gdt"][SelIndex(hw.tr)].type = "tss_busy"

-----------------------------------------------------------------------------
(* ARM stage 1: DescriptorAttr, MemFlags and PTEntry (s1pt.rs).             *)
(* A u64 is the set of the bit positions that are set in it, so & | ! are   *)
(* intersection, union and complement in 0..63.                             *)

U64Bits == 0..63

\* DescriptorAttr's named flags
VALID == {0}
NON_BLOCK == {1}
ATTR_INDX == {2, 3, 4}
NS == {5}
AP_EL0 == {6}
AP_RO == {7}
INNER == {8}
SHAREABLE == {9}
AF == {10}
NG == {11}
CONTIGUOUS == {52}
PXN == {53}
UXN == {54}
PXN_TABLE == {59}
XN_TABLE == {60}
AP_NO_EL0_TABLE == {61}
AP_NO_WRITE_TABLE == {62}
NS_TABLE == {63}

\* DescriptorAttr::all(): the union of the named flags
DescriptorAttrAll ==
    VALID \cup NON_BLOCK \cup ATTR_INDX \cup NS \cup AP_EL0 \cup AP_RO
        \cup INNER \cup SHAREABLE \cup AF \cup NG \cup CONTIGUOUS \cup PXN
        \cup UXN \cup PXN_TABLE \cup XN_TABLE \cup AP_NO_EL0_TABLE
        \cup AP_NO_WRITE_TABLE \cup NS_TABLE

\* DescriptorAttr::from_bits_truncate: bits without a name are dropped
FromBitsTruncate(bits) == bits \cap DescriptorAttrAll
\* attr.contains(f), attr.intersects(f)
Contains(attr, f) == f \subseteq attr
Intersects(attr, f) == attr \cap f # {}
\* !f on a bitflags value: the complement, truncated to the named flags
NotFlag(f) == FromBitsTruncate(U64Bits \ f)

\* PAGE_SIZE - 1: the page-offset bits of a 4 KiB page (PAGE_SIZE is imported
\* from crate::memory)
PageOffsetBits == 0..11
\* PHYS_ADDR_MASK = 0xffff_ffff_ffff & !(PAGE_SIZE - 1)
PHYS_ADDR_MASK == (0..47) \cap (U64Bits \ PageOffsetBits)

\* Mutant: the valid bit is not looked at.
MemFlagsFrom_IgnoreValid(attr) ==
    {"READ"}
        \cup (IF ~Contains(attr, AP_RO) THEN {"WRITE"} ELSE {})
        \cup (IF Contains(attr, AP_EL0)
              THEN {"USER"} \cup (IF ~Contains(attr, UXN) THEN {"EXECUTE"} ELSE {})
              ELSE IF ~Intersects(attr, PXN) THEN {"EXECUTE"} ELSE {})

\* Mutant: execute permission is taken from UXN whatever AP_EL0 is.
MemFlagsFrom_UxnOnly(attr) ==
    IF ~Contains(attr, VALID)
    THEN {"NO_PRESENT"}
    ELSE {"READ"}
        \cup (IF ~Contains(attr, AP_RO) THEN {"WRITE"} ELSE {})
        \cup (IF Contains(attr, AP_EL0) THEN {"USER"} ELSE {})
        \cup (IF ~Contains(attr, UXN) THEN {"EXECUTE"} ELSE {})

\* impl From<DescriptorAttr> for MemFlags
MemFlagsFrom(attr) ==
    IF ~Contains(attr, VALID)
    THEN {"NO_PRESENT"}
    ELSE {"READ"}
        \cup (IF ~Contains(attr, AP_RO) THEN {"WRITE"} ELSE {})
        \cup (IF Contains(attr, AP_EL0)
              THEN {"USER"} \cup (IF ~Contains(attr, UXN) THEN {"EXECUTE"} ELSE {})
              ELSE IF ~Intersects(attr, PXN) THEN {"EXECUTE"} ELSE {})

\* impl From<MemFlags> for DescriptorAttr is used by set_flags and is not in
\* s1pt.rs; this is the inverse of the decoding policy.
AttrFrom(flags) ==
    (IF "NO_PRESENT" \in flags THEN {} ELSE VALID)
        \cup (IF "WRITE" \in flags THEN {} ELSE AP_RO)
        \cup (IF "USER" \in flags
              THEN AP_EL0 \cup (IF "EXECUTE" \in flags THEN {} ELSE UXN)
              ELSE IF "EXECUTE" \in flags THEN {} ELSE PXN)

\* PTEntry::addr
PteAddr(e) == e \cap PHYS_ADDR_MASK
\* PTEntry::flags
PteFlags(e) == MemFlagsFrom(FromBitsTruncate(e))
\* PTEntry::is_unused
PteIsUnused(e) == e = {}
\* PTEntry::is_present
PteIsPresent(e) == e \cap VALID # {}
\* PTEntry::is_leaf
PteIsLeaf(e) == ~Contains(FromBitsTruncate(e), NON_BLOCK)
\* PTEntry::is_young
PteIsYoung(e) == e \cap AF # {}

\* PTEntry::set_old
SetOld(e) == e \cap (NotFlag(AF) \cup PHYS_ADDR_MASK)

\* Mutant: the whole word is replaced by the new address.
SetAddr_Overwrite(e, paddr) == paddr \cap PHYS_ADDR_MASK

\* PTEntry::set_addr
SetAddr(e, paddr) ==
    (e \cap (U64Bits \ PHYS_ADDR_MASK)) \cup (paddr \cap PHYS_ADDR_MASK)

\* Mutant: the encoded attributes are stored as they are, the NON_BLOCK bit is
\* not adjusted to is_huge.
SetFlags_KeepEncoded(e, flags, is_huge) ==
    AttrFrom(flags) \cup (e \cap PHYS_ADDR_MASK)

\* PTEntry::set_flags
SetFlags(e, flags, is_huge) ==
    LET attr0 == AttrFrom(flags)
        attr == IF is_huge THEN attr0 \ NON_BLOCK ELSE attr0 \cup NON_BLOCK
    IN attr \cup (e \cap PHYS_ADDR_MASK)

\* PTEntry::clear: the body is empty
Clear(e) == e

-----------------------------------------------------------------------------
(* PTEntry operations applied to arbitrary entries *)

\* The bit positions entries and addresses are drawn from: the flags the
\* decoder reads, the access flag, both ends of the address field, a bit below
\* and a bit above it, and a bit no flag names.
PteInputBits == {0, 1, 6, 7, 10, 12, 47, 53, 54, 55}
PaddrInputBits == {0, 12, 47, 48}
MemFlagNames == {"READ", "WRITE", "EXECUTE", "USER", "NO_PRESENT"}

CtxIdle ==
    /\ arch = "none" /\ fn = "none" /\ ip = 0
    /\ hw = << >> /\ hw0 = << >> /\ mem = << >> /\ snap = << >> /\ tabs = << >>
    /\ gdt_lock = FALSE /\ log = << >> /\ alloc = "none" /\ resumed = "none"
    /\ linux_sp = 0

PteInit ==
    /\ pte \in SUBSET PteInputBits
    /\ pte_pre = pte
    /\ pte_op = "new"
    /\ pte_out = {}
    /\ CtxIdle /\ AttrIdle /\ MmuIdle /\ MaskIdle /\ AddrIdle /\ CacheIdle

\* entry.flags()
PteGetFlags ==
    /\ pte_out' = PteFlags(pte)
    /\ pte' = pte /\ pte_pre' = pte /\ pte_op' = "flags"
    /\ UNCHANGED nonPteVars

PteSetAddr ==
    /\ \E paddr \in SUBSET PaddrInputBits : pte' = SetAddr(pte, paddr)
    /\ pte_pre' = pte /\ pte_op' = "set_addr" /\ pte_out' = {}
    /\ UNCHANGED nonPteVars

PteSetFlags ==
    /\ \E flags \in SUBSET MemFlagNames, is_huge \in BOOLEAN :
          /\ pte' = SetFlags(pte, flags, is_huge)
          /\ pte_op' = IF is_huge THEN "set_flags_huge" ELSE "set_flags"
    /\ pte_pre' = pte /\ pte_out' = {}
    /\ UNCHANGED nonPteVars

PteSetOld ==
    /\ pte' = SetOld(pte)
    /\ pte_pre' = pte /\ pte_op' = "set_old" /\ pte_out' = {}
    /\ UNCHANGED nonPteVars

PteClear ==
    /\ pte' = Clear(pte)
    /\ pte_pre' = pte /\ pte_op' = "clear" /\ pte_out' = {}
    /\ UNCHANGED nonPteVars

PteNext == PteGetFlags \/ PteSetAddr \/ PteSetFlags \/ PteSetOld \/ PteClear

SpecPTE == PteInit /\ [][PteNext]_vars

-----------------------------------------------------------------------------
(* Properties of the stage-1 PTEntry *)

\* C7: an entry whose VALID bit is clear decodes to exactly {NO_PRESENT},
\* whatever its other bits are.
C7_InvalidIsNoPresent ==
    (pte_op = "flags" /\ ~(0 \in pte)) => pte_out = {"NO_PRESENT"}

\* An entry with VALID clear and permission, execute-never and address bits set.
C7_Witness ==
    /\ pte_op = "flags" /\ pte_out = {"NO_PRESENT"}
    /\ ~(0 \in pte)
    /\ {6, 7, 12, 53, 54} \subseteq pte

\* C8: an entry whose VALID bit is set decodes to READ always, WRITE iff AP_RO
\* is clear, USER iff AP_EL0 is set, EXECUTE iff (AP_EL0 and not UXN) or
\* (not AP_EL0 and not PXN), and to none of the other flags.
C8_ValidDecoding ==
    (pte_op = "flags" /\ 0 \in pte) =>
        LET f == pte_out
        IN /\ "READ" \in f
           /\ "WRITE" \in f <=> ~(7 \in pte)
           /\ "USER" \in f <=> 6 \in pte
           /\ "EXECUTE" \in f <=>
                 ((6 \in pte /\ ~(54 \in pte)) \/ (~(6 \in pte) /\ ~(53 \in pte)))
           /\ f \subseteq {"READ", "WRITE", "USER", "EXECUTE"}

\* A valid, kernel-only entry with UXN set and PXN clear: executable although
\* the user execute-never bit is set.
C8_Witness ==
    /\ pte_op = "flags"
    /\ 0 \in pte /\ ~(6 \in pte) /\ 54 \in pte /\ ~(53 \in pte)
    /\ "EXECUTE" \in pte_out

\* C9: the address field and the named attribute bits are disjoint; set_addr
\* leaves flags, is_present, is_leaf and is_young unchanged; set_flags leaves
\* addr unchanged; set_old clears the access bit and leaves addr and flags
\* unchanged.
C9_AddrAndFlagsIndependent ==
    /\ PHYS_ADDR_MASK \cap DescriptorAttrAll = {}
    /\ pte_op = "set_addr" =>
          /\ PteFlags(pte) = PteFlags(pte_pre)
          /\ PteIsPresent(pte) = PteIsPresent(pte_pre)
          /\ PteIsLeaf(pte) = PteIsLeaf(pte_pre)
          /\ PteIsYoung(pte) = PteIsYoung(pte_pre)
    /\ pte_op \in {"set_flags", "set_flags_huge"} => PteAddr(pte) = PteAddr(pte_pre)
    /\ pte_op = "set_old" =>
          /\ ~PteIsYoung(pte)
          /\ PteAddr(pte) = PteAddr(pte_pre)
          /\ PteFlags(pte) = PteFlags(pte_pre)

\* set_addr has replaced the address of a valid, young, non-block entry.
C9_Witness ==
    /\ pte_op = "set_addr"
    /\ PteAddr(pte) # PteAddr(pte_pre) /\ PteAddr(pte) # {}
    /\ PteIsPresent(pte_pre) /\ PteIsYoung(pte_pre) /\ ~PteIsLeaf(pte_pre)

\* C10 as stated: after clear() the raw word is zero, so the entry is unused,
\* not present, and decodes to exactly {NO_PRESENT}.
C10_ClearZeroes ==
    pte_op = "clear" =>
        /\ pte = {}
        /\ PteIsUnused(pte) /\ ~PteIsPresent(pte)
        /\ PteFlags(pte) = {"NO_PRESENT"}

\* C11: is_leaf() is the negation of the NON_BLOCK bit (bit 1) and of nothing
\* else; an entry written by set_flags(flags, is_huge) reports
\* is_leaf() = is_huge; an entry with NON_BLOCK set is never a leaf.
C11_IsLeafIsNotNonBlock ==
    /\ PteIsLeaf(pte) <=> ~(1 \in pte)
    /\ pte_op = "set_flags_huge" => PteIsLeaf(pte)
    /\ pte_op = "set_flags" => ~PteIsLeaf(pte)

\* set_flags(.., is_huge = true) has turned a non-block entry into a block
\* mapping at the same address.
C11_Witness ==
    /\ pte_op = "set_flags_huge"
    /\ 1 \in pte_pre /\ ~PteIsLeaf(pte_pre)
    /\ PteIsLeaf(pte) /\ PteIsPresent(pte) /\ PteAddr(pte) # {}

-----------------------------------------------------------------------------
(* ARM stage 1: MemType and the attribute-index codec of DescriptorAttr      *)

MemTypes == {"Device", "Normal"}
\* enum MemType { Device = 0, Normal = 1 }
MemTypeValue(t) == IF t = "Device" THEN 0 ELSE 1

\* the bit positions set in a small number
SmallBits(n) == {i \in 0..7 : (n \div 2^i) % 2 = 1}
\* the number whose set bit positions are b (b within the low bits)
RECURSIVE BitsValue(_)
BitsValue(b) ==
    IF b = {} THEN 0
    ELSE LET i == CHOOSE j \in b : TRUE IN 2^i + BitsValue(b \ {i})
\* bits << k and bits >> k on a u64
ShiftLeft(b, k) == {i + k : i \in b} \cap U64Bits
ShiftRight(b, k) == {i - k : i \in {j \in b : j >= k}}

\* DescriptorAttr::ATTR_INDEX_MASK = 0b111_00
ATTR_INDEX_MASK == {2, 3, 4}

\* DescriptorAttr::from_mem_type
from_mem_type(t) ==
    LET bits0 == ShiftLeft(SmallBits(MemTypeValue(t)), 2)
        bits == IF t = "Normal" THEN bits0 \cup INNER \cup SHAREABLE ELSE bits0
    IN FromBitsTruncate(bits)

\* Mutant: an unknown attribute index decodes to Device.
mem_type_DefaultDevice(a) ==
    IF BitsValue(ShiftRight(a \cap ATTR_INDEX_MASK, 2)) = 1 THEN "Normal" ELSE "Device"

\* DescriptorAttr::mem_type; "panic" is the abort of the last match arm
mem_type(a) ==
    LET idx == BitsValue(ShiftRight(a \cap ATTR_INDEX_MASK, 2))
    IN CASE idx = 0 -> "Device"
         [] idx = 1 -> "Normal"
         [] OTHER -> "panic"

\* The bit positions attributes are drawn from: VALID, the three bits of the
\* attribute index, INNER, SHAREABLE and AF.
AttrInputBits == {0, 2, 3, 4, 8, 9, 10}

AttrInit ==
    /\ desc \in SUBSET AttrInputBits
    /\ desc_op = "new" /\ desc_out = "none"
    /\ CtxIdle /\ PteIdle /\ MmuIdle /\ MaskIdle /\ AddrIdle /\ CacheIdle

\* attr.mem_type()
DescMemType ==
    /\ desc_out' = mem_type(desc)
    /\ desc_op' = "mem_type" /\ desc' = desc
    /\ UNCHANGED nonAttrVars

\* DescriptorAttr::from_mem_type(t)
DescFromMemType ==
    /\ \E t \in MemTypes :
          /\ desc' = from_mem_type(t)
          /\ desc_out' = t
    /\ desc_op' = "from_mem_type"
    /\ UNCHANGED nonAttrVars

AttrNext == DescMemType \/ DescFromMemType

SpecAttr == AttrInit /\ [][AttrNext]_vars

\* C12: mem_type() returns Device for attribute index 0, Normal for index 1
\* and panics for the indices 2..7; mem_type(from_mem_type(t)) = t for both
\* memory types; from_mem_type sets INNER and SHAREABLE for Normal and neither
\* for Device.
C12_MemTypeCodec ==
    /\ desc_op = "mem_type" =>
          LET idx == (IF 2 \in desc THEN 1 ELSE 0) + (IF 3 \in desc THEN 2 ELSE 0)
                        + (IF 4 \in desc THEN 4 ELSE 0)
          IN /\ idx = 0 => desc_out = "Device"
             /\ idx = 1 => desc_out = "Normal"
             /\ idx \in 2..7 => desc_out = "panic"
    /\ desc_op = "from_mem_type" =>
          /\ mem_type(desc) = desc_out
          /\ desc_out = "Normal" => (8 \in desc /\ 9 \in desc)
          /\ desc_out = "Device" => (~(8 \in desc) /\ ~(9 \in desc))

\* mem_type() has aborted on attribute index 6.
C12_Witness ==
    /\ desc_op = "mem_type" /\ desc_out = "panic"
    /\ desc \cap ATTR_INDEX_MASK = {3, 4}

-----------------------------------------------------------------------------
(* ARM stage 1: S1PTInstr (s1pt.rs) against the EL2 translation regime.      *)
(* A write to TTBR0_EL2 is guaranteed to be seen by the table walker only    *)
(* after a context synchronization event (isb); tlbi issues an invalidation  *)
(* that is guaranteed complete only after a dsb.  The walker may cache a     *)
(* translation at any time.                                                  *)

\* root tables and virtual pages of the model
Roots == {1, 2}
Vaddrs == {0, 1}

\* a cached translation; old: it was cached before the running call began
TlbEntry(va, root, old) == [va |-> va, root |-> root, old |-> old]
MarkOld(entries) == {TlbEntry(e.va, e.root, TRUE) : e \in entries}

\* Mutant: the new root is installed without invalidating the TLB.
ActivateProg_NoInvalidate == <<"msr_ttbr0_el2", "isb", "dsb_nsh">>

\* S1PTInstr::activate
ActivateProg ==
    << "msr_ttbr0_el2",     \* 228  TTBR0_EL2.set(root_paddr as _)
       "isb",               \* 229
       "tlbi_alle2",        \* 230
       "dsb_nsh" >>         \* 231

MmuInit ==
    /\ ttbr \in Roots /\ ttbr_eff = ttbr
    /\ tlb = {} /\ tlbi = {}
    /\ mmu_fn = "idle" /\ mmu_pc = 0
    /\ mmu_arg = [some |-> FALSE, v |-> 0]
    /\ mmu_log = << >>
    /\ CtxIdle /\ PteIdle /\ AttrIdle /\ MaskIdle /\ AddrIdle /\ CacheIdle

MmuAt(op) ==
    /\ mmu_fn = "activate" /\ mmu_pc \in 1..Len(ActivateProg)
    /\ ActivateProg[mmu_pc] = op

MmuStep(op) ==
    /\ mmu_pc' = mmu_pc + 1
    /\ mmu_log' = Append(mmu_log, [op |-> op, tlb |-> tlb])

\* the table walker caches the translation of a page under the root it uses
TlbFill ==
    /\ \E va \in Vaddrs : tlb' = tlb \cup {TlbEntry(va, ttbr_eff, FALSE)}
    /\ tlb' # tlb
    /\ UNCHANGED <<nonMmuVars, ttbr, ttbr_eff, tlbi, mmu_fn, mmu_pc, mmu_arg, mmu_log>>

\* a written TTBR0_EL2 takes effect without a synchronization event
TtbrTakesEffect ==
    /\ ttbr_eff # ttbr
    /\ ttbr_eff' = ttbr
    /\ UNCHANGED <<nonMmuVars, ttbr, tlb, tlbi, mmu_fn, mmu_pc, mmu_arg, mmu_log>>

\* a caller invokes S1PTInstr::activate(root_paddr)
ActivateCall ==
    /\ mmu_fn \in {"idle", "returned", "flushed"}
    /\ \E root \in Roots : mmu_arg' = [some |-> TRUE, v |-> root]
    /\ mmu_fn' = "activate" /\ mmu_pc' = 1 /\ mmu_log' = << >>
    /\ tlb' = MarkOld(tlb) /\ tlbi' = MarkOld(tlbi)
    /\ UNCHANGED <<nonMmuVars, ttbr, ttbr_eff>>

\* TTBR0_EL2.set(root_paddr)
MsrTtbr0El2 ==
    /\ MmuAt("msr_ttbr0_el2")
    /\ ttbr' = mmu_arg.v
    /\ MmuStep("msr_ttbr0_el2")
    /\ UNCHANGED <<nonMmuVars, ttbr_eff, tlb, tlbi, mmu_fn, mmu_arg>>

\* isb
Isb ==
    /\ MmuAt("isb")
    /\ ttbr_eff' = ttbr
    /\ MmuStep("isb")
    /\ UNCHANGED <<nonMmuVars, ttbr, tlb, tlbi, mmu_fn, mmu_arg>>

\* tlbi alle2
TlbiAlle2 ==
    /\ MmuAt("tlbi_alle2")
    /\ tlbi' = tlbi \cup tlb
    /\ MmuStep("tlbi_alle2")
    /\ UNCHANGED <<nonMmuVars, ttbr, ttbr_eff, tlb, mmu_fn, mmu_arg>>

\* dsb nsh
DsbNsh ==
    /\ MmuAt("dsb_nsh")
    /\ tlb' = tlb \ tlbi /\ tlbi' = {}
    /\ MmuStep("dsb_nsh")
    /\ UNCHANGED <<nonMmuVars, ttbr, ttbr_eff, mmu_fn, mmu_arg>>

\* activate returns
ActivateReturn ==
    /\ mmu_fn = "activate" /\ mmu_pc > Len(ActivateProg)
    /\ mmu_fn' = "returned"
    /\ UNCHANGED <<nonMmuVars, ttbr, ttbr_eff, tlb, tlbi, mmu_pc, mmu_arg, mmu_log>>

\* S1PTInstr::flush(vaddr): the body is empty
Flush ==
    /\ mmu_fn \in {"idle", "returned", "flushed"}
    /\ \E some \in BOOLEAN, va \in Vaddrs :
          mmu_arg' = [some |-> some, v |-> IF some THEN va ELSE 0]
    /\ mmu_fn' = "flushed" /\ mmu_log' = << >>
    /\ tlb' = MarkOld(tlb) /\ tlbi' = MarkOld(tlbi)
    /\ UNCHANGED <<nonMmuVars, ttbr, ttbr_eff, mmu_pc>>

MmuNext ==
    \/ TlbFill \/ TtbrTakesEffect
    \/ ActivateCall \/ MsrTtbr0El2 \/ Isb \/ TlbiAlle2 \/ DsbNsh \/ ActivateReturn
    \/ Flush

SpecMmu == MmuInit /\ [][MmuNext]_vars

MmuOps == [i \in DOMAIN mmu_log |-> mmu_log[i].op]

\* C13: activate(root_paddr) executes the write of TTBR0_EL2, isb, tlbi alle2
\* and dsb nsh in this order and nothing else; when it has returned TTBR0_EL2
\* holds root_paddr and no translation cached before the call is left.
C13_ActivateSequence ==
    LET seq == <<"msr_ttbr0_el2", "isb", "tlbi_alle2", "dsb_nsh">>
    IN /\ mmu_fn = "activate" =>
             /\ Len(mmu_log) <= Len(seq)
             /\ MmuOps = SubSeq(seq, 1, Len(mmu_log))
       /\ mmu_fn = "returned" =>
             /\ MmuOps = seq
             /\ ttbr = mmu_arg.v
             /\ \A e \in tlb : ~e.old

\* activate has switched to another root while translations of both pages
\* under the previous root were cached, and has returned.
C13_Witness ==
    /\ mmu_fn = "returned" /\ Len(mmu_log) = 4
    /\ \A va \in Vaddrs :
          \E e \in mmu_log[1].tlb : e.old /\ e.va = va /\ e.root # mmu_arg.v
    /\ ttbr = mmu_arg.v

\* C14 as stated: when flush(Some(vaddr)) has returned no translation of vaddr
\* cached before the call is left, and when flush(None) has returned no
\* translation cached before the call is left at all.
C14_FlushInvalidates ==
    mmu_fn = "flushed" =>
        \A e \in tlb : e.old => (mmu_arg.some /\ e.va # mmu_arg.v)

-----------------------------------------------------------------------------
(* CpuMask (cpumask.rs): an array of CPU_MASK_LEN usize words; each word is  *)
(* the set of the bit positions set in it.                                   *)

NR_CPUS == 512
BITS_PER_BYTE == 8
\* size_of::<usize>() * BITS_PER_BYTE
BITS_PER_USIZE == WordSize * BITS_PER_BYTE
CPU_MASK_LEN == (NR_CPUS + BITS_PER_USIZE - 1) \div BITS_PER_USIZE

\* 1 << (cpuid % BITS_PER_USIZE)
CpuBit(cpuid) == {cpuid % BITS_PER_USIZE}
\* cpuid / BITS_PER_USIZE
CpuWord(cpuid) == cpuid \div BITS_PER_USIZE

\* CpuMask::default()
EmptyMask == [w \in 0..(CPU_MASK_LEN - 1) |-> {}]

\* Mutant: the word is assigned the bit instead of or-ed with it.
set_cpu_Assign(m, cpuid) == [m EXCEPT ![CpuWord(cpuid)] = CpuBit(cpuid)]

\* CpuMask::set_cpu
set_cpu(m, cpuid) == [m EXCEPT ![CpuWord(cpuid)] = @ \cup CpuBit(cpuid)]
\* CpuMask::clear_cpu
clear_cpu(m, cpuid) ==
    [m EXCEPT ![CpuWord(cpuid)] = @ \cap (U64Bits \ CpuBit(cpuid))]
\* CpuMask::test_cpu: the result as a set of bit positions, {} is zero
test_cpu(m, cpuid) == m[CpuWord(cpuid)] \cap CpuBit(cpuid)
\* CpuMask::clear
clear(m) == [w \in 0..(CPU_MASK_LEN - 1) |-> {}]

\* The cpu ids operations are applied to: both ends of the first word, the
\* start of the second, and the last cpu.
CpuInputs == {0, 1, BITS_PER_USIZE - 1, BITS_PER_USIZE, NR_CPUS - 1}

MaskInit ==
    /\ mask = EmptyMask /\ mask_pre = EmptyMask
    /\ mask_op = "new" /\ mask_cpu = 0
    /\ CtxIdle /\ PteIdle /\ AttrIdle /\ MmuIdle /\ AddrIdle /\ CacheIdle

MaskSetCpu ==
    /\ \E c \in CpuInputs : mask' = set_cpu(mask, c) /\ mask_cpu' = c
    /\ mask_pre' = mask /\ mask_op' = "set_cpu"
    /\ UNCHANGED nonMaskVars

MaskClearCpu ==
    /\ \E c \in CpuInputs : mask' = clear_cpu(mask, c) /\ mask_cpu' = c
    /\ mask_pre' = mask /\ mask_op' = "clear_cpu"
    /\ UNCHANGED nonMaskVars

MaskClear ==
    /\ mask' = clear(mask) /\ mask_cpu' = 0
    /\ mask_pre' = mask /\ mask_op' = "clear"
    /\ UNCHANGED nonMaskVars

MaskNext == MaskSetCpu \/ MaskClearCpu \/ MaskClear

SpecMask == MaskInit /\ [][MaskNext]_vars

\* C15: after any sequence of operations, set_cpu(i) makes test_cpu(i)
\* non-zero and clear_cpu(i) makes it zero, each leaving test_cpu(j) as it was
\* for every other j < 512; clear() makes test_cpu(k) zero for every k < 512.
C15_CpuMaskBits ==
    LET Others == (0..(NR_CPUS - 1)) \ {mask_cpu}
    IN /\ mask_op = "set_cpu" =>
             /\ test_cpu(mask, mask_cpu) # {}
             /\ \A j \in Others : test_cpu(mask, j) = test_cpu(mask_pre, j)
       /\ mask_op = "clear_cpu" =>
             /\ test_cpu(mask, mask_cpu) = {}
             /\ \A j \in Others : test_cpu(mask, j) = test_cpu(mask_pre, j)
       /\ mask_op = "clear" =>
             \A k \in 0..(NR_CPUS - 1) : test_cpu(mask, k) = {}

\* cpu 63 has been cleared while cpu 0 of the same word and cpu 64 of the
\* next word stay set.
C15_Witness ==
    /\ mask_op = "clear_cpu" /\ mask_cpu = 63
    /\ test_cpu(mask_pre, 63) # {} /\ test_cpu(mask, 63) = {}
    /\ test_cpu(mask, 0) # {} /\ test_cpu(mask, 64) # {}

-----------------------------------------------------------------------------
(* Address alignment (memory/addr.rs).  A usize is the set of the bit        *)
(* positions set in it; + and - are carried out on the bits so that the carry *)
(* out of bit 63 is seen.  With overflow checks compiled in (the default of  *)
(* a debug build) an overflowing + or - panics, otherwise it wraps.          *)

\* PAGE_SIZE (4 KiB) as a bit set; PAGE_SIZE - 1 is PageOffsetBits
PageSizeBits == {Cardinality(PageOffsetBits)}

\* the carry into bit i of a + b: some lower bit generates a carry and every
\* bit between propagates it
CarryInto(a, b, i) ==
    \E j \in 0..(i - 1) :
        /\ j \in a /\ j \in b
        /\ \A k \in (j + 1)..(i - 1) : k \in a \/ k \in b

\* a + b on 64 bits: the wrapped sum and whether it overflowed
Add64(a, b) ==
    [v |-> {i \in U64Bits : (i \in a) # ((i \in b) # CarryInto(a, b, i))},
     overflow |-> CarryInto(a, b, 64)]

\* the borrow into bit i of a - b
BorrowInto(a, b, i) ==
    \E j \in 0..(i - 1) :
        /\ j \notin a /\ j \in b
        /\ \A k \in (j + 1)..(i - 1) : k \notin a \/ k \in b

\* a - b on 64 bits: the wrapped difference and whether it borrowed
Sub64(a, b) ==
    [v |-> {i \in U64Bits : (i \in a) # ((i \in b) # BorrowInto(a, b, i))},
     overflow |-> BorrowInto(a, b, 64)]

\* the result of a call: ok is FALSE when the call panicked
Returned(v) == [ok |-> TRUE, v |-> v]
Panicked == [ok |-> FALSE, v |-> {}]

\* align_down
align_down(a) == a \cap (U64Bits \ PageOffsetBits)

\* align_up: (addr + PAGE_SIZE - 1) & !(PAGE_SIZE - 1), evaluated left to right
align_up(a, checks) ==
    LET s == Add64(a, PageSizeBits)
        d == Sub64(s.v, {0})
    IN IF checks /\ (s.overflow \/ d.overflow) THEN Panicked
       ELSE Returned(d.v \cap (U64Bits \ PageOffsetBits))

\* page_offset
page_offset(a) == a \cap PageOffsetBits

\* is_aligned
is_aligned(a) == page_offset(a) = {}

\* The addresses the functions are applied to: every combination of an offset
\* within the page drawn from bits 0, 5 and 11 with a page number that is
\* zero, one, the highest bit alone, all ones but the lowest, or all ones.
AddrInputs ==
    LET pageBits == U64Bits \ PageOffsetBits
    IN { lo \cup hi : lo \in SUBSET {0, 5, 11},
                      hi \in { {}, {12}, {63}, pageBits \ {12}, pageBits } }

AddrInit ==
    /\ addr_in \in AddrInputs
    /\ addr_op = "none" /\ addr_out = Returned({})
    /\ overflow_checks \in BOOLEAN
    /\ CtxIdle /\ PteIdle /\ AttrIdle /\ MmuIdle /\ MaskIdle /\ CacheIdle

AddrCall(op, result) ==
    /\ addr_op' = op /\ addr_out' = result
    /\ UNCHANGED <<nonAddrVars, addr_in, overflow_checks>>

AddrAlignDown == AddrCall("align_down", Returned(align_down(addr_in)))
AddrAlignUp == AddrCall("align_up", align_up(addr_in, overflow_checks))
AddrPageOffset == AddrCall("page_offset", Returned(page_offset(addr_in)))
AddrIsAligned ==
    AddrCall("is_aligned", Returned(IF is_aligned(addr_in) THEN {0} ELSE {}))

\* the caller passes a result on as the next argument
AddrFeed ==
    /\ addr_op \in {"align_down", "align_up"} /\ addr_out.ok
    /\ addr_in' = addr_out.v /\ addr_in' # addr_in
    /\ addr_op' = "none"
    /\ UNCHANGED <<nonAddrVars, addr_out, overflow_checks>>

AddrNext ==
    \/ AddrAlignDown \/ AddrAlignUp \/ AddrPageOffset \/ AddrIsAligned
    \/ AddrFeed

SpecAddr == AddrInit /\ [][AddrNext]_vars

\* C16 as stated: for every address x, those within PAGE_SIZE of the maximum
\* included, align_up(x) returns a value u with align_down(u) = u and
\* is_aligned(u), and page_offset(align_down(x)) = 0.
C16_AlignIdentities ==
    /\ addr_op = "align_up" =>
          /\ addr_out.ok
          /\ align_down(addr_out.v) = addr_out.v
          /\ is_aligned(addr_out.v)
    /\ addr_op = "align_down" => page_offset(addr_out.v) = {}

-----------------------------------------------------------------------------
(* The trampoline macros against the GuestRegisters block (context.rs of     *)
(* both architectures): save_regs_to_stack followed by                       *)
(* restore_regs_from_stack, and restore_regs_from_stack run with the stack   *)
(* pointer at the base of a block.                                           *)

\* struct GuestRegisters, x86_64: the fields in declared order
X86GuestFields ==
    <<"rax", "rcx", "rdx", "rbx", "_unused_rsp", "rbp", "rsi", "rdi",
      "r8", "r9", "r10", "r11", "r12", "r13", "r14", "r15">>
\* struct GuestRegisters, ARM: x0 .. x30, then sp and pc
ArmGuestXRegs == 31
ArmGuestFields == ArmGuestXRegs + 2

\* the block lies at TrampBase; the memory around it is modelled up to TrampTop
TrampBase == 2 * WordSize
TrampTop == TrampBase + (ArmGuestFields + 1) * WordSize
TrampAddrs == {a \in 0..TrampTop : a % WordSize = 0}

\* byte offset of the i-th field of a block
FieldOffset(i) == (i - 1) * WordSize
\* bytes save_regs_to_stack pushes
SavedBytes(a) ==
    IF a = "x86_64" THEN Len(X86GuestFields) * WordSize
    ELSE ArmGuestXRegs * WordSize

TrampHw(a, k, sp) ==
    IF a = "x86_64"
    THEN [r \in {X86GuestFields[i] : i \in 1..Len(X86GuestFields)} \cup {"rsp"} |->
             IF r = "rsp" THEN sp
             ELSE 100 + k + (CHOOSE i \in 1..Len(X86GuestFields) : X86GuestFields[i] = r)]
    ELSE [sp |-> sp, pc |-> 0, x |-> [i \in 0..(ArmGuestXRegs - 1) |-> 100 + k + i]]

TrampInit ==
    /\ arch \in {"x86_64", "ARM"}
    /\ fn \in {"save_restore", "restore_block"}
    /\ ip = 1
    /\ \E k \in 0..MaxSeed :
          /\ hw = TrampHw(arch, k,
                     IF fn = "save_restore" THEN TrampBase + SavedBytes(arch)
                     ELSE TrampBase)
          /\ mem = [a \in TrampAddrs |-> 300 + k + a \div WordSize]
    /\ hw0 = hw
    /\ snap = << >> /\ tabs = << >> /\ gdt_lock = FALSE /\ log = << >>
    /\ alloc = "none" /\ resumed = "none" /\ linux_sp = 0
    /\ PteIdle /\ AttrIdle /\ MmuIdle /\ MaskIdle /\ AddrIdle /\ CacheIdle

\* the last instruction of the macros has executed
TrampDone ==
    /\ fn \in {"save_restore", "restore_block"} /\ ip > Len(Prog(fn))
    /\ resumed' = fn /\ fn' = "done"
    /\ UNCHANGED <<nonCtxVars, arch, ip, hw, hw0, mem, snap, tabs, gdt_lock, log, alloc, linux_sp>>

TrampNext ==
    \/ PushReg \/ SubRsp \/ Pop \/ AddRsp
    \/ ArmStp \/ ArmStr \/ ArmLdr \/ ArmLdp
    \/ TrampDone

SpecTramp == TrampInit /\ [][TrampNext]_vars

\* the macro sequence running or just completed
TrampFn == IF fn = "done" THEN resumed ELSE fn
\* the register named by the i-th field, now and before the macros ran
FieldReg(h, i) == IF arch = "x86_64" THEN h[X86GuestFields[i]] ELSE h.x[i - 1]
\* the fields the macros save and load
RegFields ==
    IF arch = "x86_64"
    THEN {i \in 1..Len(X86GuestFields) : X86GuestFields[i] # "_unused_rsp"}
    ELSE 1..ArmGuestXRegs
StackPtr(h) == IF arch = "x86_64" THEN h.rsp ELSE h.sp

-----------------------------------------------------------------------------
(* LinuxContext::load_from on both architectures: the reads of the slice     *)
(* regs = from_raw_parts(linux_sp, SAVED_LINUX_REGS).  Indexing a slice at   *)
(* or beyond its length panics.                                              *)

\* the length of the slice regs
SliceLen == IF arch = "x86_64" THEN SAVED_LINUX_REGS ELSE ARM_SAVED_LINUX_REGS

\* the fields of the ARM LinuxContext
ArmLinuxFields ==
    {"sp", "pc", "x29", "x30"} \cup {ArmXFields[i] : i \in 1..Len(ArmXFields)}

\* the stack pointers load_from is called with
LinuxSpInputs == {0, WordSize}

LoadInit ==
    /\ arch \in {"x86_64", "ARM"}
    /\ fn = "load_regs" /\ ip = 1
    /\ linux_sp \in LinuxSpInputs
    /\ \E k \in 0..MaxSeed : mem = [a \in TrampAddrs |-> 300 + k + a \div WordSize]
    /\ snap = IF arch = "x86_64" THEN NoSnapshot ELSE [f \in ArmLinuxFields |-> 0]
    /\ hw = << >> /\ hw0 = << >> /\ tabs = << >> /\ gdt_lock = FALSE
    /\ log = << >> /\ alloc = "none" /\ resumed = "none"
    /\ PteIdle /\ AttrIdle /\ MmuIdle /\ MaskIdle /\ AddrIdle /\ CacheIdle

LoadAt(op) ==
    /\ fn = "load_regs" /\ ip <= Len(Prog(fn))
    /\ Cur.op = op

\* field: regs.as_ptr_range().end
SliceEnd ==
    /\ LoadAt("stackend")
    /\ snap' = [snap EXCEPT ![Cur.b] = linux_sp + SliceLen * WordSize]
    /\ log' = Append(log, [kind |-> "end", field |-> Cur.b, index |-> SliceLen])
    /\ Step
    /\ UNCHANGED <<nonCtxVars, arch, hw, hw0, mem, tabs, gdt_lock, alloc, resumed, linux_sp>>

\* field: regs[index]
SliceRead ==
    /\ LoadAt("rdstack")
    /\ IF Cur.a < SliceLen
       THEN /\ snap' = [snap EXCEPT ![Cur.b] = mem[linux_sp + Cur.a * WordSize]]
            /\ log' = Append(log, [kind |-> "read", field |-> Cur.b, index |-> Cur.a])
            /\ Step
       ELSE /\ log' = Append(log, [kind |-> "oob", field |-> Cur.b, index |-> Cur.a])
            /\ fn' = "panic"
            /\ UNCHANGED <<snap, ip>>
    /\ UNCHANGED <<nonCtxVars, arch, hw, hw0, mem, tabs, gdt_lock, alloc, resumed, linux_sp>>

\* the struct expression is complete
LoadRegsDone ==
    /\ fn = "load_regs" /\ ip > Len(Prog(fn))
    /\ fn' = "loaded"
    /\ UNCHANGED <<nonCtxVars, arch, ip, hw, hw0, mem, snap, tabs, gdt_lock, log, alloc, resumed, linux_sp>>

LoadNext == SliceEnd \/ SliceRead \/ LoadRegsDone

SpecLoad == LoadInit /\ [][LoadNext]_vars

\* C18 as stated: load_from indexes regs only below SAVED_LINUX_REGS (7 on
\* x86_64, 31 on ARM), assigns each snapshot field once, from one saved word,
\* and on x86_64 captures rsp = linux_sp + 7 * 8 and rip = the seventh word.
C18_ReadsOnlySavedWords ==
    /\ fn # "panic"
    /\ \A j \in DOMAIN log : log[j].kind = "end" \/ log[j].index < SliceLen
    /\ \A i, j \in DOMAIN log : i # j => log[i].field # log[j].field
    /\ (arch = "x86_64" /\ fn = "loaded") =>
          /\ snap.rsp = linux_sp + 7 * 8
          /\ snap.rip = mem[linux_sp + 6 * 8]

-----------------------------------------------------------------------------
(* clflush_cache_range (arch/x86_64/cpu.rs)                                  *)

CACHE_LINE_SIZE == 64

\* the arguments the function is called with: aligned and unaligned start
\* addresses, lengths below, at and above one and two cache lines
ClVaddrInputs == {0, 1, CACHE_LINE_SIZE - 4, CACHE_LINE_SIZE - 1, CACHE_LINE_SIZE}
ClLengthInputs ==
    {0, 1, WordSize, CACHE_LINE_SIZE, CACHE_LINE_SIZE + 1,
     2 * CACHE_LINE_SIZE, 2 * CACHE_LINE_SIZE + 2}

ClEv(op, a) == [op |-> op, addr |-> a]

CacheInit ==
    /\ cl_fn = "entry"
    /\ cl_vaddr \in ClVaddrInputs /\ cl_length \in ClLengthInputs
    /\ cl_addr = 0 /\ cl_log = << >>
    /\ CtxIdle /\ PteIdle /\ AttrIdle /\ MmuIdle /\ MaskIdle /\ AddrIdle

\* asm!("mfence"), then the iterator (vaddr..(vaddr + length)).step_by(64)
\* starts at vaddr
ClMfenceBefore ==
    /\ cl_fn = "entry"
    /\ cl_log' = Append(cl_log, ClEv("mfence", 0))
    /\ cl_addr' = cl_vaddr
    /\ cl_fn' = "loop"
    /\ UNCHANGED <<nonCacheVars, cl_vaddr, cl_length>>

\* one iteration: _mm_clflush(addr), and the iterator steps by CACHE_LINE_SIZE
ClFlush ==
    /\ cl_fn = "loop" /\ cl_addr < cl_vaddr + cl_length
    /\ cl_log' = Append(cl_log, ClEv("clflush", cl_addr))
    /\ cl_addr' = cl_addr + CACHE_LINE_SIZE
    /\ UNCHANGED <<nonCacheVars, cl_fn, cl_vaddr, cl_length>>

\* the range is exhausted: asm!("mfence") and return
ClMfenceAfter ==
    /\ cl_fn = "loop" /\ cl_addr >= cl_vaddr + cl_length
    /\ cl_log' = Append(cl_log, ClEv("mfence", 0))
    /\ cl_fn' = "returned"
    /\ UNCHANGED <<nonCacheVars, cl_vaddr, cl_length, cl_addr>>

CacheNext == ClMfenceBefore \/ ClFlush \/ ClMfenceAfter

SpecCache == CacheInit /\ [][CacheNext]_vars

\* the cache lines that overlap [vaddr, vaddr + length)
LinesOfRange ==
    {l \in 0..((cl_vaddr + cl_length) \div CACHE_LINE_SIZE) :
        /\ l * CACHE_LINE_SIZE < cl_vaddr + cl_length
        /\ (l + 1) * CACHE_LINE_SIZE > cl_vaddr
        /\ cl_length > 0}
ClFlushes == {j \in DOMAIN cl_log : cl_log[j].op = "clflush"}
ClFences == {j \in DOMAIN cl_log : cl_log[j].op = "mfence"}

\* C19 as stated: when clflush_cache_range(vaddr, length) has returned, every
\* cache line overlapping [vaddr, vaddr + length) has been flushed, whatever
\* the alignment of vaddr; exactly one fence precedes the first flush and one
\* follows the last; at most ceil(length / 64) flushes were issued.
C19_FlushesEveryLine ==
    cl_fn = "returned" =>
        /\ \A l \in LinesOfRange :
              \E j \in ClFlushes : cl_log[j].addr \div CACHE_LINE_SIZE = l
        /\ ClFences = {1, Len(cl_log)} /\ Len(cl_log) >= 2
        /\ Cardinality(ClFlushes)
              <= (cl_length + CACHE_LINE_SIZE - 1) \div CACHE_LINE_SIZE

====
